---- MODULE Spec2Model ----
(***************************************************************************)
(* A model of mdapackmol.py: the pack-and-reassemble pipeline              *)
(*   make_packmol_input -> run_packmol -> load_packmol_output ->           *)
(*   reassign_topology                                                     *)
(* Residue names are sequences of characters, so that the Replica Label    *)
(* 'R{}'.format(i) and its decoding int(resname[1:]) are computed, not     *)
(* assumed.  Atom indices are 0-based as in the code; TLA+ sequences are   *)
(* 1-based, so atom index k is element k+1 of a sequence.                  *)
(***************************************************************************)
EXTENDS Integers, Sequences, FiniteSets, TLC

\* ---------------------------------------------------------------- bounds
\* longest list of PackmolStructure objects handed to packmol()
MaxStructures == 2
\* largest PackmolStructure.number
MaxNumber == 2
\* most atoms in a packed structure that is not the faithful packing
MaxAtoms == 2

\* ---------------------------------------------------------------- helpers
Range(s) == {s[k] : k \in 1..Len(s)}

RECURSIVE SumSeq(_)
SumSeq(s) == IF s = <<>> THEN 0 ELSE Head(s) + SumSeq(Tail(s))

RECURSIVE Flatten(_)
Flatten(ss) == IF ss = <<>> THEN <<>> ELSE Head(ss) \o Flatten(Tail(ss))

RECURSIVE Repeat(_, _)
Repeat(s, n) == IF n = 0 THEN <<>> ELSE s \o Repeat(s, n - 1)

\* ---------------------------------------------------------------- strings
Digit(d) ==
    CASE d = 0 -> "0" [] d = 1 -> "1" [] d = 2 -> "2" [] d = 3 -> "3"
      [] d = 4 -> "4" [] d = 5 -> "5" [] d = 6 -> "6" [] d = 7 -> "7"
      [] d = 8 -> "8" [] d = 9 -> "9"

DigitChars == {Digit(d) : d \in 0..9}

DigitVal(c) == CHOOSE d \in 0..9 : Digit(d) = c

\* '{}'.format(n) for a non-negative integer
RECURSIVE FormatInt(_)
FormatInt(n) ==
    IF n < 10 THEN <<Digit(n)>>
    ELSE FormatInt(n \div 10) \o <<Digit(n % 10)>>

\* 'R{}'.format(index)
ReplicaLabelOffByOne(index) == <<"R">> \o FormatInt(index + 1)

ReplicaLabel(index) == <<"R">> \o FormatInt(index)

RECURSIVE DigitsValue(_, _)
DigitsValue(s, acc) ==
    IF s = <<>> THEN acc
    ELSE DigitsValue(Tail(s), 10 * acc + DigitVal(Head(s)))

\* int(s): -1 stands for the ValueError python raises on a non-number
ParseInt(s) ==
    IF s # <<>> /\ \A k \in 1..Len(s) : s[k] \in DigitChars
    THEN DigitsValue(s, 0)
    ELSE -1

\* int(start.resname[1:])
TemplateIndexOf(resname) ==
    ParseInt(IF resname = <<>> THEN <<>> ELSE Tail(resname))

\* ---------------------------------------------------------------- templates
ATTRS == <<"types", "names", "charges", "masses">>

Absent == [has |-> FALSE, val |-> <<>>]
Given(v) == [has |-> TRUE, val |-> v]

NoAttrs == [a \in Range(ATTRS) |-> Absent]

\* value a freshly added per-atom attribute holds
DefaultValue(attr) == IF attr \in {"types", "names"} THEN "" ELSE "0.0"

\* An AtomGroup: ressizes[r] atoms in its r-th residue, in order.
\* three atoms, one residue, bonds (0,1),(1,2), an angle; names and charges
TemplateA ==
    [ressizes |-> <<3>>, resnames |-> << <<"S", "O", "L">> >>,
     attrs |-> [NoAttrs EXCEPT !["names"] = Given(<<"OW", "HW", "HW">>),
                               !["charges"] = Given(<<"-0.8", "0.4", "0.4">>)],
     bonds |-> Given(<< <<0, 1>>, <<1, 2>> >>),
     angles |-> Given(<< <<0, 1, 2>> >>),
     dihedrals |-> Absent, impropers |-> Absent]

\* two atoms in two residues, one bond, an empty angle list; names and masses;
\* its first residue happens to be called R0
TemplateB ==
    [ressizes |-> <<1, 1>>, resnames |-> << <<"R", "0">>, <<"N", "A">> >>,
     attrs |-> [NoAttrs EXCEPT !["names"] = Given(<<"C", "N">>),
                               !["masses"] = Given(<<"12.0", "14.0">>)],
     bonds |-> Given(<< <<0, 1>> >>),
     angles |-> Given(<<>>),
     dihedrals |-> Absent, impropers |-> Absent]

\* four atoms, one residue, no bonds attribute at all, angles, a dihedral and
\* an improper; types only
TemplateD ==
    [ressizes |-> <<4>>, resnames |-> << <<"U", "R", "E">> >>,
     attrs |-> [NoAttrs EXCEPT !["types"] = Given(<<"c", "n", "n", "o">>)],
     bonds |-> Absent,
     angles |-> Given(<< <<1, 0, 2>>, <<1, 0, 3>> >>),
     dihedrals |-> Given(<< <<0, 1, 2, 3>> >>),
     impropers |-> Given(<< <<0, 1, 2, 3>> >>)]

\* the empty AtomGroup
TemplateZ ==
    [ressizes |-> <<>>, resnames |-> <<>>,
     attrs |-> NoAttrs,
     bonds |-> Absent, angles |-> Absent,
     dihedrals |-> Absent, impropers |-> Absent]

Templates == {TemplateA, TemplateB, TemplateD, TemplateZ}

\* len(ag.atoms), len(ag.residues)
NAtoms(ag) == SumSeq(ag.ressizes)
NRes(ag) == Len(ag.ressizes)

\* PackmolStructure(ag, number, instructions)
PackmolStructure(ag, number, instructions) ==
    [ag |-> ag, number |-> number, instructions |-> instructions]

Instructions == <<"inside box 0. 0. 0. 40. 40. 40.">>

Descriptors ==
    {PackmolStructure(ag, n, Instructions) : ag \in Templates, n \in 1..MaxNumber}

RECURSIVE SeqsUpTo(_, _)
SeqsUpTo(S, n) ==
    IF n = 0 THEN {<<>>}
    ELSE LET shorter == SeqsUpTo(S, n - 1)
         IN  shorter \cup {Append(s, x) : s \in {t \in shorter : Len(t) = n - 1}, x \in S}

\* the lists of structures packmol() is called with: distinct templates
StructureLists ==
    {s \in SeqsUpTo(Descriptors, MaxStructures) :
        /\ s # <<>>
        /\ \A j, k \in 1..Len(s) : j # k => s[j].ag # s[k].ag}

\* ---------------------------------------------------------------- universes
\* A Universe: resindex[k+1] is the (0-based) residue of atom k
EmptyUniverse ==
    [resindex |-> <<>>, resnames |-> <<>>, attrs |-> NoAttrs,
     bonds |-> Absent, angles |-> Absent, dihedrals |-> Absent,
     impropers |-> Absent]

\* atoms of residues of the given sizes, the first residue being number first
RECURSIVE ResIndexOf(_, _)
ResIndexOf(sizes, first) ==
    IF sizes = <<>> THEN <<>>
    ELSE Repeat(<<first>>, Head(sizes)) \o ResIndexOf(Tail(sizes), first + 1)

\* the universe read from a coordinate file holding the residues
\* <<label, size>> in order
UniverseOf(residues) ==
    [EmptyUniverse EXCEPT
        !.resindex = ResIndexOf([r \in 1..Len(residues) |-> residues[r][2]], 0),
        !.resnames = [r \in 1..Len(residues) |-> residues[r][1]]]

\* the coordinate file mda.Writer writes for an AtomGroup
CoordinateFile(ag) == [ressizes |-> ag.ressizes, resnames |-> ag.resnames]

\* the residue name each atom line of a coordinate file carries
AtomResnames(file) ==
    Flatten([r \in 1..Len(file.ressizes) |->
                Repeat(<<file.resnames[r]>>, file.ressizes[r])])

\* the residues of one replica of the structure written to the given file
ReplicaResidues(file) ==
    [r \in 1..Len(file.ressizes) |-> <<file.resnames[r], file.ressizes[r]>>]

\* what a packer that keeps its promise writes: number full copies of each
\* input file, file by file, residue names kept
RECURSIVE PackedResidues(_, _, _)
PackedResidues(structures, files, i) ==
    IF i >= Len(structures) THEN <<>>
    ELSE Repeat(ReplicaResidues(files[i + 1]), structures[i + 1].number)
         \o PackedResidues(structures, files, i + 1)

FaithfulPacking(structures, files) == UniverseOf(PackedResidues(structures, files, 0))

\* residue lists of at most n atoms over the given labels
RECURSIVE ResidueLists(_, _)
ResidueLists(labels, n) ==
    IF n = 0 THEN {<<>>}
    ELSE {<<>>} \cup
         {<< <<l, size>> >> \o rest :
            l \in labels, size \in 1..n, rest \in ResidueLists(labels, n - 1)}

AtomsIn(residues) == SumSeq([r \in 1..Len(residues) |-> residues[r][2]])

\* any other output file: labels R0..Rn (Rn names no structure), any residues
ArbitraryPackings(structures) ==
    {UniverseOf(rs) :
        rs \in {x \in ResidueLists({ReplicaLabel(j) : j \in 0..Len(structures)}, MaxAtoms) :
                  AtomsIn(x) \in 1..MaxAtoms}}

\* ---------------------------------------------------------------- state
VARIABLES
    structures,   \* the list of PackmolStructure objects (their ag.resnames change)
    structures0,  \* the list as it was when packmol() was called
    pc,           \* where the pipeline is
    i,            \* loop index of make_packmol_input
    packmolInp,   \* lines of packmol.inp
    inputFiles,   \* inputFiles[k+1] is input{k}.pdb
    proc,         \* outcome of the packmol process
    logFile,      \* packmol.stdout: <<>> while not written, else <<text>>
    err,          \* the exception that ended the run
    calls,        \* the functions entered so far, in order
    new,          \* the Universe of the packed output
    new0,         \* new as load_packmol_output returned it
    warned,       \* attributes warnings.warn was called for, in order
    index,        \* the pointer of reassign_topology
    bonds, angles, dihedrals, impropers,   \* its running lists
    visited,      \* <<index, template index>> of every iteration completed
    iters         \* iterations of the while loop begun

vars == <<structures, structures0, pc, i, packmolInp, inputFiles, proc, logFile,
          err, calls, new, new0, warned, index, bonds, angles, dihedrals,
          impropers, visited, iters>>

reassignVars == <<new, warned, index, bonds, angles, dihedrals, impropers,
                  visited, iters>>

NoError == [type |-> "none", msg |-> <<>>]
NoProc == [returncode |-> 0, stderr |-> "", stdout |-> ""]

PACKMOL_INP == "packmol.inp"
PACKMOL_OUT == "output.pdb"
\* PACKMOL_STRUCTURE_FILES.format(index)
PACKMOL_STRUCTURE_FILES(idx) == <<"input">> \o FormatInt(idx) \o <<".pdb">>

DefaultTolerance == "2.0"
Tolerances == {"None", "1.5"}

Init ==
    /\ structures \in StructureLists
    /\ structures0 = structures
    /\ pc = "packmol"
    /\ i = 0
    /\ packmolInp = <<>>
    /\ inputFiles = <<>>
    /\ proc = NoProc
    /\ logFile = <<>>
    /\ err = NoError
    /\ calls = <<>>
    /\ new = EmptyUniverse
    /\ new0 = EmptyUniverse
    /\ warned = <<>>
    /\ index = 0
    /\ bonds = <<>> /\ angles = <<>> /\ dihedrals = <<>> /\ impropers = <<>>
    /\ visited = <<>>
    /\ iters = 0

\* ---------------------------------------------------------------- input generator
\* PackmolStructure.to_packmol_inp(index)
to_packmol_inp(pms, idx) ==
    << <<"structure", PACKMOL_STRUCTURE_FILES(idx)>>, <<"number", pms.number>> >>
    \o [k \in 1..Len(pms.instructions) |-> <<"instruction", pms.instructions[k]>>]
    \o << <<"end structure">> >>

\* self.ag.residues.resnames = 'R{}'.format(index)
Relabelled(ag, idx) ==
    [ag EXCEPT !.resnames = [r \in 1..NRes(ag) |-> ReplicaLabel(idx)]]

\* self.ag.residues.resnames = old_resnames
Restored(ag, old_resnames) == [ag EXCEPT !.resnames = old_resnames]

\* make_packmol_input up to its loop: the header of packmol.inp
MakePackmolInputOpen ==
    /\ pc = "packmol"
    /\ \E tolerance \in Tolerances :
          packmolInp' = << <<"# autogenerated packmol input">>,
                           <<"tolerance",
                             IF tolerance = "None" THEN DefaultTolerance ELSE tolerance>>,
                           <<"filetype", "pdb">> >>
    /\ calls' = Append(calls, "make_packmol_input")
    /\ i' = 0
    /\ pc' = "make_input"
    /\ UNCHANGED <<structures, structures0, inputFiles, proc, logFile, err>>
    /\ UNCHANGED <<new0>> /\ UNCHANGED reassignVars

\* one turn of its loop: to_packmol_inp(i), then save_structure(i) to the end
SaveStructure ==
    /\ pc = "make_input"
    /\ i < Len(structures)
    /\ LET pms == structures[i + 1]
           old_resnames == pms.ag.resnames
           labelled == Relabelled(pms.ag, i)
       IN  /\ packmolInp' = packmolInp \o to_packmol_inp(pms, i)
           /\ inputFiles' = Append(inputFiles, CoordinateFile(labelled))
           /\ structures' = [structures EXCEPT ![i + 1].ag = Restored(labelled, old_resnames)]
    /\ i' = i + 1
    /\ UNCHANGED <<structures0, pc, proc, logFile, err, calls, new0>>
    /\ UNCHANGED reassignVars

\* the same turn when mda.Writer raises: nothing catches it, and the line
\* after the with block never runs
SaveStructureRaises ==
    /\ pc = "make_input"
    /\ i < Len(structures)
    /\ LET pms == structures[i + 1]
       IN  /\ packmolInp' = packmolInp \o to_packmol_inp(pms, i)
           /\ structures' = [structures EXCEPT ![i + 1].ag = Relabelled(pms.ag, i)]
    /\ err' = [type |-> "IOError", msg |-> <<PACKMOL_STRUCTURE_FILES(i)>>]
    /\ pc' = "error"
    /\ UNCHANGED <<structures0, i, inputFiles, proc, logFile, calls, new0>>
    /\ UNCHANGED reassignVars

\* after the loop: the output line; packmol() goes on to run_packmol
MakePackmolInputClose ==
    /\ pc = "make_input"
    /\ i >= Len(structures)
    /\ packmolInp' = Append(packmolInp, <<"output", PACKMOL_OUT>>)
    /\ pc' = "run_packmol"
    /\ UNCHANGED <<structures, structures0, i, inputFiles, proc, logFile, err,
                   calls, new0>>
    /\ UNCHANGED reassignVars

\* ---------------------------------------------------------------- packer
\* how the process may end: <<exit status, stderr, stdout>>
ProcessOutcomes ==
    {<<0, "", "Success!">>, <<1, "", "">>, <<1, "cannot converge", "">>,
     <<173, "cannot converge", "">>}

\* subprocess.run(..., check=True) raises CalledProcessError
NeverRaises(returncode) == FALSE

CalledProcessError(returncode) == returncode # 0

\* the ValueError run_packmol raises
PackmolFailed(returncode, stderr) ==
    [type |-> "ValueError",
     msg |-> <<"Packmol failed with errorcode ", returncode, " and stderr: ", stderr>>]

run_packmol ==
    /\ pc = "run_packmol"
    /\ calls' = Append(calls, "run_packmol")
    /\ \E outcome \in ProcessOutcomes :
          LET returncode == outcome[1]
              stderr == outcome[2]
              stdout == outcome[3]
          IN  /\ proc' = [returncode |-> returncode, stderr |-> stderr, stdout |-> stdout]
              /\ IF CalledProcessError(returncode)
                 THEN /\ err' = PackmolFailed(returncode, stderr)
                      /\ pc' = "error"
                      /\ UNCHANGED logFile
                 ELSE /\ logFile' = <<stdout>>
                      /\ pc' = "load_packmol_output"
                      /\ UNCHANGED err
    /\ UNCHANGED <<structures, structures0, i, packmolInp, inputFiles, new0>>
    /\ UNCHANGED reassignVars

\* ---------------------------------------------------------------- loader
\* the output files the packer may have left
PackedOutputs == {FaithfulPacking(structures, inputFiles)} \cup ArbitraryPackings(structures)

load_packmol_output ==
    /\ pc = "load_packmol_output"
    /\ calls' = Append(calls, "load_packmol_output")
    /\ \E u \in PackedOutputs : new' = u /\ new0' = u
    /\ pc' = "reassign_topology"
    /\ UNCHANGED <<structures, structures0, i, packmolInp, inputFiles, proc,
                   logFile, err, warned, index, bonds, angles, dihedrals,
                   impropers, visited, iters>>

\* mda.Universe raises on a missing or malformed output file
load_packmol_output_raises ==
    /\ pc = "load_packmol_output"
    /\ calls' = Append(calls, "load_packmol_output")
    /\ err' = [type |-> "LoadFailure", msg |-> <<PACKMOL_OUT>>]
    /\ pc' = "error"
    /\ UNCHANGED <<structures, structures0, i, packmolInp, inputFiles, proc,
                   logFile, new0>>
    /\ UNCHANGED reassignVars

\* ---------------------------------------------------------------- reassign_topology
\* len(new.atoms)
NAtomsOf(u) == Len(u.resindex)

\* hasattr(pms.ag, attr) and hasattr(template.atoms, attr)
HasAttrNever(ag, attr) == FALSE

HasAttr(ag, attr) == ag.attrs[attr].has

\* new.add_TopologyAttr(attr): the attribute with its default for every atom
AddTopologyAttr(u, attr) ==
    [u EXCEPT !.attrs[attr] = Given([k \in 1..NAtomsOf(u) |-> DefaultValue(attr)])]

\* the first for loop, attribute by attribute
RECURSIVE Provisioned(_, _, _)
Provisioned(u, structs, k) ==
    IF k > Len(ATTRS) THEN u
    ELSE Provisioned(
            IF \E j \in 1..Len(structs) : HasAttr(structs[j].ag, ATTRS[k])
            THEN AddTopologyAttr(u, ATTRS[k]) ELSE u,
            structs, k + 1)

\* the attributes it warns about, in order
RECURSIVE Warnings(_, _)
Warnings(structs, k) ==
    IF k > Len(ATTRS) THEN <<>>
    ELSE (IF /\ \E j \in 1..Len(structs) : HasAttr(structs[j].ag, ATTRS[k])
             /\ ~ \A j \in 1..Len(structs) : HasAttr(structs[j].ag, ATTRS[k])
          THEN <<ATTRS[k]>> ELSE <<>>)
         \o Warnings(structs, k + 1)

ReassignProvision ==
    /\ pc = "reassign_topology"
    /\ calls' = Append(calls, "reassign_topology")
    /\ index' = 0
    /\ bonds' = <<>> /\ angles' = <<>> /\ dihedrals' = <<>> /\ impropers' = <<>>
    /\ new' = Provisioned(new, structures, 1)
    /\ warned' = Warnings(structures, 1)
    /\ pc' = "walk"
    /\ UNCHANGED <<structures, structures0, i, packmolInp, inputFiles, proc,
                   logFile, err, new0, visited, iters>>

\* start.resname for start = new.atoms[index]
StartResname(u, idx) == u.resnames[u.resindex[idx + 1] + 1]

\* the atom indices of to_change = new.atoms[index:index + len(template.atoms)]
ToChange(u, idx, template) ==
    {k \in idx..(idx + NAtoms(template) - 1) : k < NAtomsOf(u)}

\* the residue indices of new.residues[start.resindex:start.resindex + nres]
ResiduesToChange(u, idx, template) ==
    LET first == u.resindex[idx + 1]
    IN  {r \in first..(first + NRes(template) - 1) : r < Len(u.resnames)}

\* new.residues[...].resnames = template.residues.resnames
ResnamesKept(u, idx, template) == u

ResnamesSet(u, idx, template) ==
    LET first == u.resindex[idx + 1]
    IN  [u EXCEPT !.resnames =
            [r \in 1..Len(u.resnames) |->
                IF (r - 1) \in ResiduesToChange(u, idx, template)
                THEN template.resnames[r - first]
                ELSE u.resnames[r]]]

\* setattr(to_change, attr, getattr(template.atoms, attr))
AttrSet(u, idx, template, attr) ==
    [u EXCEPT !.attrs[attr].val =
        [k \in 1..NAtomsOf(u) |->
            IF (k - 1) \in ToChange(u, idx, template)
            THEN template.attrs[attr].val[k - idx]
            ELSE u.attrs[attr].val[k]]]

\* the second for loop, attribute by attribute
RECURSIVE AttrsSet(_, _, _, _)
AttrsSet(u, idx, template, k) ==
    IF k > Len(ATTRS) THEN u
    ELSE AttrsSet(IF HasAttr(template, ATTRS[k])
                  THEN AttrSet(u, idx, template, ATTRS[k]) ELSE u,
                  idx, template, k + 1)

\* (template.X.to_indices() + index).tolist()
NotShifted(tuples, idx) == tuples

Shifted(tuples, idx) ==
    [j \in 1..Len(tuples) |-> [m \in 1..Len(tuples[j]) |-> tuples[j][m] + idx]]

\* what list.extend receives for one bonded type (nothing without the attribute)
Contribution(attribute, idx) ==
    IF attribute.has THEN Shifted(attribute.val, idx) ELSE <<>>

\* index += len(template.atoms)
AdvancedByOne(idx, template) == idx + 1

Advanced(idx, template) == idx + NAtoms(template)

\* what ends an iteration early: int() of a non-number, a list index out of
\* range, or an assignment of values whose length is not the group's
WalkError(u, structs, idx) ==
    LET t == TemplateIndexOf(StartResname(u, idx))
    IN  IF t < 0 THEN "ValueError"
        ELSE IF t >= Len(structs) THEN "IndexError"
        ELSE LET template == structs[t + 1].ag
             IN  IF Cardinality(ResiduesToChange(u, idx, template)) # NRes(template)
                 THEN "ValueError"
                 ELSE IF /\ \E k \in 1..Len(ATTRS) : HasAttr(template, ATTRS[k])
                         /\ Cardinality(ToChange(u, idx, template)) # NAtoms(template)
                 THEN "ValueError"
                 ELSE "none"

\* the while loop runs on as long as index < len(new.atoms); a walk that
\* stopped advancing is followed for one iteration more than there are atoms
InLoop ==
    /\ pc = "walk"
    /\ index < NAtomsOf(new)
    /\ iters <= NAtomsOf(new)

\* one full iteration of the while loop
WalkBlock ==
    /\ InLoop
    /\ WalkError(new, structures, index) = "none"
    /\ LET t == TemplateIndexOf(StartResname(new, index))
           template == structures[t + 1].ag
       IN  /\ new' = AttrsSet(ResnamesSet(new, index, template), index, template, 1)
           /\ bonds' = bonds \o Contribution(template.bonds, index)
           /\ angles' = angles \o Contribution(template.angles, index)
           /\ dihedrals' = dihedrals \o Contribution(template.dihedrals, index)
           /\ impropers' = impropers \o Contribution(template.impropers, index)
           /\ index' = Advanced(index, template)
           /\ visited' = Append(visited, <<index, t>>)
    /\ iters' = iters + 1
    /\ UNCHANGED <<structures, structures0, pc, i, packmolInp, inputFiles, proc,
                   logFile, err, calls, new0, warned>>

\* an iteration that raises; the residue names are already written when
\* it is the per-atom assignment that fails
WalkRaises ==
    /\ InLoop
    /\ WalkError(new, structures, index) # "none"
    /\ LET t == TemplateIndexOf(StartResname(new, index))
           named == /\ t >= 0 /\ t < Len(structures)
                    /\ Cardinality(ResiduesToChange(new, index, structures[t + 1].ag))
                         = NRes(structures[t + 1].ag)
       IN  new' = IF named THEN ResnamesSet(new, index, structures[t + 1].ag) ELSE new
    /\ err' = [type |-> WalkError(new, structures, index), msg |-> <<"reassign_topology">>]
    /\ iters' = iters + 1
    /\ pc' = "error"
    /\ UNCHANGED <<structures, structures0, i, packmolInp, inputFiles, proc,
                   logFile, calls, new0, warned, index, bonds, angles, dihedrals,
                   impropers, visited>>

\* angles = [tuple(val) for val in bonds]
AttachedAngles(bondlist, anglelist) == bondlist

\* new.add_TopologyAttr(name, values=...) when the list is not empty
Attached(old, values, guard) == IF guard # <<>> THEN Given(values) ELSE old

\* after the loop: the four if blocks, and return new
ReassignAttach ==
    /\ pc = "walk"
    /\ ~(index < NAtomsOf(new))
    /\ new' = [new EXCEPT
                 !.bonds = Attached(@, bonds, bonds),
                 !.angles = Attached(@, AttachedAngles(bonds, angles), angles),
                 !.dihedrals = Attached(@, dihedrals, dihedrals),
                 !.impropers = Attached(@, impropers, impropers)]
    /\ angles' = IF angles # <<>> THEN AttachedAngles(bonds, angles) ELSE angles
    /\ pc' = "done"
    /\ UNCHANGED <<structures, structures0, i, packmolInp, inputFiles, proc,
                   logFile, err, calls, new0, warned, index, bonds, dihedrals,
                   impropers, visited, iters>>

\* ---------------------------------------------------------------- specification
Next ==
    \/ MakePackmolInputOpen
    \/ SaveStructure
    \/ SaveStructureRaises
    \/ MakePackmolInputClose
    \/ run_packmol
    \/ load_packmol_output
    \/ load_packmol_output_raises
    \/ ReassignProvision
    \/ WalkBlock
    \/ WalkRaises
    \/ ReassignAttach

Spec == Init /\ [][Next]_vars

\* ---------------------------------------------------------------- vocabulary of the claims
Called(f) == f \in Range(calls)

\* make_packmol_input has returned
InputMade == Called("make_packmol_input") /\ pc \notin {"make_input"} /\ err.type # "IOError"

\* reassign_topology was handed number full contiguous copies of every template
Faithful ==
    /\ Called("reassign_topology")
    /\ new0 = FaithfulPacking(structures, inputFiles)

\* <<first atom, structure index>> of every replica, from the counts alone
RECURSIVE ExpectedBlocks(_, _, _)
ExpectedBlocks(structs, k, c) ==
    IF k >= Len(structs) THEN <<>>
    ELSE LET n == NAtoms(structs[k + 1].ag)
         IN  [r \in 1..structs[k + 1].number |-> <<c + (r - 1) * n, k>>]
             \o ExpectedBlocks(structs, k + 1, c + structs[k + 1].number * n)

Occupied(block) == NAtoms(structures[block[2] + 1].ag) > 0

\* sum of count_i * atoms_in_template_i, and sum of count_i
TotalAtoms == SumSeq([k \in 1..Len(structures) |->
                        structures[k].number * NAtoms(structures[k].ag)])
TotalReplicas == SumSeq([k \in 1..Len(structures) |-> structures[k].number])

\* the atoms of the block that starts at c and came from template t
BlockOf(c, t) == c..(c + NAtoms(structures[t + 1].ag) - 1)

\* local index tuples moved to a block starting at c
OffsetBy(tuples, c) ==
    [j \in 1..Len(tuples) |-> [m \in 1..Len(tuples[j]) |-> tuples[j][m] + c]]

\* the global list one bonded type must hold, given the blocks walked
ExpectedTuples(kind) ==
    Flatten([v \in 1..Len(visited) |->
        LET ag == structures[visited[v][2] + 1].ag
            own == CASE kind = "bonds" -> ag.bonds
                     [] kind = "angles" -> ag.angles
                     [] kind = "dihedrals" -> ag.dihedrals
                     [] kind = "impropers" -> ag.impropers
        IN  IF own.has THEN OffsetBy(own.val, visited[v][1]) ELSE <<>>])

\* the residue name atom k of universe u carries
ResnameOfAtom(u, k) == u.resnames[u.resindex[k + 1] + 1]

\* the residue name the template gives the atom at position p of its block
TemplateResname(ag, p) == ag.resnames[ResIndexOf(ag.ressizes, 1)[p + 1]]

\* ---------------------------------------------------------------- C1
ScenarioAB ==
    /\ Len(structures) = 2
    /\ structures[1].ag.ressizes = <<3>> /\ structures[1].number = 2
    /\ structures[1].ag.bonds = Given(<< <<0, 1>>, <<1, 2>> >>)
    /\ structures[2].ag.ressizes = <<1, 1>> /\ structures[2].number = 1
    /\ structures[2].ag.bonds = Given(<< <<0, 1>> >>)
    /\ Faithful

\* C1: when reassign_topology returns, the bonds attached to the packed
\* structure are, block by block in the order walked, each bond (a,b) of the
\* block's template as (a+c, b+c) for the block's first atom c, and nothing
\* else (no bonds attribute at all when that list is empty); template A
\* (3 atoms, bonds (0,1),(1,2)) twice then template B (2 atoms, bond (0,1))
\* once gives exactly {(0,1),(1,2),(3,4),(4,5),(6,7)}.
C1_BondOffsets ==
    pc = "done" =>
        /\ new.bonds.val = ExpectedTuples("bonds")
        /\ new.bonds.has = (ExpectedTuples("bonds") # <<>>)
        /\ ScenarioAB =>
              /\ Range(new.bonds.val) =
                    {<<0, 1>>, <<1, 2>>, <<3, 4>>, <<4, 5>>, <<6, 7>>}
              /\ Len(new.bonds.val) = 5

C1_Witness ==
    /\ pc = "done"
    /\ ScenarioAB
    /\ new.bonds = Given(<< <<0, 1>>, <<1, 2>>, <<3, 4>>, <<4, 5>>, <<6, 7>> >>)

\* ---------------------------------------------------------------- C2
\* C2: when reassign_topology returns, the angles attached to the packed
\* structure are the templates' own angle triples, each shifted by the first
\* atom of the block it came from, in block order, whatever the bonds are.
C2_AnglesFromAngles ==
    pc = "done" =>
        /\ new.angles.val = ExpectedTuples("angles")
        /\ new.angles.has = (ExpectedTuples("angles") # <<>>)

\* ---------------------------------------------------------------- C3
\* the block the walk cuts at c for template t does not fit: it runs past the
\* last atom, or holds an atom that came in under another Replica Label
Mismatched(c, t) ==
    \/ c + NAtoms(structures[t + 1].ag) > NAtomsOf(new0)
    \/ \E k \in BlockOf(c, t) :
          k < NAtomsOf(new0) /\ ResnameOfAtom(new0, k) # StartResname(new0, c)

\* C3: a block that does not fit ends reassign_topology in an error: the walk
\* never completes an iteration on such a block, so it never returns a
\* structure relabelled across a mismatch.
C3_MismatchFailsFast ==
    \A v \in 1..Len(visited) : ~Mismatched(visited[v][1], visited[v][2])

\* ---------------------------------------------------------------- C4
ResnamesAsGiven ==
    \A k \in 1..Len(structures) : structures[k].ag.resnames = structures0[k].ag.resnames

\* C4: when make_packmol_input is left by an exception of the coordinate
\* writer, every template has the residue names it had before the call.
C4_RestoredOnFailure ==
    (pc = "error" /\ err.type = "IOError") => ResnamesAsGiven

\* ---------------------------------------------------------------- C5
\* C5: once make_packmol_input has returned, input{i}.pdb exists for every
\* structure i, each of its atoms carries the residue name "R" followed by i
\* in decimal (which decodes back to i), and every template has, residue by
\* residue, the names it had before the call.
C5_LabelRoundTrip ==
    InputMade =>
        /\ Len(inputFiles) = Len(structures)
        /\ \A k \in 0..(Len(structures) - 1) :
              LET names == AtomResnames(inputFiles[k + 1])
              IN  /\ Len(names) = NAtoms(structures[k + 1].ag)
                  /\ \A a \in 1..Len(names) :
                        /\ names[a] = <<"R">> \o FormatInt(k)
                        /\ TemplateIndexOf(names[a]) = k
        /\ ResnamesAsGiven
        /\ structures = structures0

C5_Witness ==
    /\ InputMade
    /\ Len(structures) = 2
    /\ AtomResnames(inputFiles[2]) = << <<"R", "1">>, <<"R", "1">>, <<"R", "1">> >>
    /\ structures[2].ag.resnames = << <<"S", "O", "L">> >>

\* ---------------------------------------------------------------- C6
\* C6: when the packing process exits with a status s other than zero and
\* error output e, packmol() ends in the error run_packmol raises, which
\* carries s and e; output.pdb is never loaded, reassign_topology never
\* starts and packmol.stdout is not written.
C6_PackerFailureAborts ==
    (Called("run_packmol") /\ proc.returncode # 0) =>
        /\ pc = "error"
        /\ err.type = "ValueError"
        /\ err.msg[2] = proc.returncode
        /\ err.msg[4] = proc.stderr
        /\ ~Called("load_packmol_output")
        /\ ~Called("reassign_topology")
        /\ new = EmptyUniverse
        /\ logFile = <<>>

C6_Witness ==
    /\ pc = "error"
    /\ proc.returncode = 173
    /\ proc.stderr = "cannot converge"
    /\ err.msg = <<"Packmol failed with errorcode ", 173, " and stderr: ", "cannot converge">>

\* ---------------------------------------------------------------- C7
AttrNames == Range(ATTRS)

\* defined by at least one template, but not by all
Partial(attr) ==
    /\ \E k \in 1..Len(structures) : structures[k].ag.attrs[attr].has
    /\ \E k \in 1..Len(structures) : ~structures[k].ag.attrs[attr].has

\* C7: for an attribute some but not all templates define, reassign_topology
\* warns; when it returns, every atom of a block whose template defines the
\* attribute has the template's value at its position in the block and every
\* atom of a block whose template lacks it has the default; and on a packed
\* structure made of full template copies it does not fail.
C7_PartialAttributes ==
    /\ (Faithful => pc # "error")
    /\ \A attr \in AttrNames :
          (Partial(attr) /\ Called("reassign_topology") /\ pc \in {"walk", "done", "error"}) =>
              /\ attr \in Range(warned)
              /\ new.attrs[attr].has
              /\ Len(new.attrs[attr].val) = NAtomsOf(new)
              /\ pc = "done" =>
                    \A v \in 1..Len(visited) :
                       LET c == visited[v][1]
                           ag == structures[visited[v][2] + 1].ag
                       IN  \A k \in BlockOf(c, visited[v][2]) :
                              k < NAtomsOf(new) =>
                                 new.attrs[attr].val[k + 1] =
                                    IF ag.attrs[attr].has
                                    THEN ag.attrs[attr].val[k - c + 1]
                                    ELSE DefaultValue(attr)

\* templates A (charges) and B (no charges), packed faithfully
C7_Witness ==
    /\ pc = "done"
    /\ Faithful
    /\ Len(structures) = 2
    /\ Partial("charges")
    /\ structures[1].ag.attrs["charges"].has
    /\ structures[1].number = 1 /\ structures[2].number = 1
    /\ NAtoms(structures[2].ag) = 2
    /\ new.attrs["charges"].val = <<"-0.8", "0.4", "0.4", "0.0", "0.0">>
    /\ "charges" \in Range(warned)

\* ---------------------------------------------------------------- C8
\* the replica block atom k lies in, from the counts alone
BlockHolding(k) ==
    LET blocks == ExpectedBlocks(structures, 0, 0)
    IN  blocks[CHOOSE b \in 1..Len(blocks) : k \in BlockOf(blocks[b][1], blocks[b][2])]

NamedAsTemplate(k) ==
    LET b == BlockHolding(k)
    IN  ResnameOfAtom(new, k) = TemplateResname(structures0[b[2] + 1].ag, k - b[1])

\* C8 as stated: after reassign_topology returns on a packed structure of full
\* template copies, every atom's residue name differs from the Replica Label
\* it came in with and is the template's name for the corresponding residue.
C8_RenamedAndDifferent ==
    (pc = "done" /\ Faithful) =>
        \A k \in 0..(NAtomsOf(new) - 1) :
           /\ NamedAsTemplate(k)
           /\ ResnameOfAtom(new, k) # ResnameOfAtom(new0, k)

\* C8 as amended: every atom's residue name is the template's name for the
\* corresponding residue, and so differs from the Replica Label it came in
\* with unless the template's own name for that residue is that label.
C8_RenamedAsTemplate ==
    (pc = "done" /\ Faithful) =>
        /\ NAtomsOf(new) = TotalAtoms
        /\ \A k \in 0..(NAtomsOf(new) - 1) :
              LET b == BlockHolding(k)
                  own == TemplateResname(structures0[b[2] + 1].ag, k - b[1])
              IN  /\ ResnameOfAtom(new0, k) = <<"R">> \o FormatInt(b[2])
                  /\ NamedAsTemplate(k)
                  /\ (own # ResnameOfAtom(new0, k)) =>
                        ResnameOfAtom(new, k) # ResnameOfAtom(new0, k)

C8_Witness ==
    /\ pc = "done"
    /\ Faithful
    /\ Len(structures) = 2
    /\ NAtomsOf(new) = 5
    /\ new.resnames = << <<"R", "0">>, <<"N", "A">>, <<"S", "O", "L">> >>
    /\ new0.resnames = << <<"R", "0">>, <<"R", "0">>, <<"R", "1">> >>

\* ---------------------------------------------------------------- C9
OccupiedBlocks == SelectSeq(ExpectedBlocks(structures, 0, 0), Occupied)

\* C9 as stated: on a packed structure of count_i full copies of every
\* template the pointer is, at every iteration, the first atom of a replica
\* block, the walk makes sum of count_i iterations, and it stops with the
\* pointer at the number of atoms.
C9_VisitsEveryReplica ==
    Faithful =>
        /\ NAtomsOf(new) = TotalAtoms
        /\ index <= TotalAtoms
        /\ (pc = "walk" /\ index < NAtomsOf(new)) =>
              \E b \in Range(ExpectedBlocks(structures, 0, 0)) : b[1] = index
        /\ pc = "done" => (index = TotalAtoms /\ iters = TotalReplicas)

\* C9 as amended: the same, the iterations being the replicas of the
\* templates that have atoms, each visited once and in order.
C9_BlockPartition ==
    Faithful =>
        /\ NAtomsOf(new) = TotalAtoms
        /\ index <= TotalAtoms
        /\ pc # "error"
        /\ (pc = "walk" /\ index < NAtomsOf(new)) =>
              /\ iters < Len(OccupiedBlocks)
              /\ OccupiedBlocks[iters + 1][1] = index
        /\ visited = SubSeq(OccupiedBlocks, 1, iters)
        /\ pc = "done" => (index = TotalAtoms /\ iters = Len(OccupiedBlocks))

\* A twice then B once: blocks at 0, 3 and 6, eight atoms
C9_Witness ==
    /\ pc = "done"
    /\ ScenarioAB
    /\ visited = << <<0, 0>>, <<3, 0>>, <<6, 1>> >>
    /\ index = 8
    /\ iters = 3

\* ---------------------------------------------------------------- C10
\* C10: every iteration of the while loop that completes moves the pointer
\* forward, so the loop is over after at most len(new.atoms) iterations.
C10_PointerAdvances ==
    [][(pc = "walk" /\ pc' = "walk" /\ iters' = iters + 1) =>
          (index' > index /\ iters' <= NAtomsOf(new))]_vars

====
